---- MODULE Spec2Model ----
(***************************************************************************)
(* Attendance routes (express router over the Attendance and User          *)
(* collections) of the workforce-management backend.                       *)
(*                                                                         *)
(* Each request is one run of an async handler; every `await` is a point   *)
(* where other requests interleave.  Spec runs the mark-attendance handler *)
(* on concurrent connections over one shared record store; SpecRead runs   *)
(* the three read handlers over the stores mark-attendance produces.       *)
(***************************************************************************)
EXTENDS Integers, Sequences, FiniteSets, TLC

\* ------------------------------------------------------------- bounds
\* Clock ticks per calendar day and the last tick of the modelled clock.
TicksPerDay == 2
MaxNow == 3

\* ------------------------------------------------------- plain values
\* JavaScript null and undefined (a field missing from the request body).
NULL == "<null>"
UNDEF == "<undefined>"

\* Connections that carry concurrent requests.
Conns == {"c1", "c2"}

\* -------------------------------------------------- identity directory
\* The User collection: an admin, an hr user with one employee, an hr user
\* that created nobody, and an employee provisioned by the admin.
UserIds == {"adm", "h1", "h2", "e1", "e2"}

Directory ==
    [u \in UserIds |->
        CASE u = "adm" -> [_id |-> u, name |-> "Root", role |-> "admin", createdBy |-> NULL]
          [] u = "h1" -> [_id |-> u, name |-> "Hana", role |-> "hr", createdBy |-> "adm"]
          [] u = "h2" -> [_id |-> u, name |-> "Hugo", role |-> "hr", createdBy |-> "adm"]
          [] u = "e1" -> [_id |-> u, name |-> "Eve", role |-> "employee", createdBy |-> "h1"]
          [] u = "e2" -> [_id |-> u, name |-> "Eli", role |-> "employee", createdBy |-> "adm"]]

\* A well-formed identifier that names no user.
GhostId == "ghost"

\* ATTENDANCE_STATUS of ../constants/enums.
ATTENDANCE_STATUS == {"present", "absent", "leave", "half-day"}

\* What a request body may carry in each field.
EmployeeIdInputs == {"e1", "e2", "h1", GhostId, UNDEF}
StatusInputs == {"present", "absent", "bogus", UNDEF}
CheckInInputs == {"09:00", "", UNDEF}

\* JavaScript truthiness of a request field: `!x` is true for undefined,
\* null and the empty string.
Truthy(x) == x \notin {UNDEF, NULL, ""}

\* ------------------------------------------------------------ responses
Res(code, message) == [status |-> code, message |-> message]
NoRes == Res(0, NULL)

ResForbidden == Res(403, "Access denied")
ResInvalidInput == Res(400, "Invalid input. Check employeeId and status.")
ResCheckInRequired == Res(400, "Check-in time required for present status.")
ResNotFound == Res(404, "Employee not found or access denied")
ResDuplicate == Res(400, "Attendance already marked for today")
ResMarkFailed == Res(500, "Failed to mark attendance")
ResCreated == Res(201, NULL)

\* ---------------------------------------------------------------- state
VARIABLES
    records,    \* the Attendance collection: a set of documents
    now,        \* the server clock, in ticks
    req,        \* per connection: the mark-attendance request in flight
    rd,         \* the read request in flight
    meetings,   \* the meetings of the data context, in creation order
    users,      \* the users of the auth context
    currentUser, \* the user the MeetingScheduler is mounted for
    showAddForm, \* MeetingScheduler state: the form is open
    formData,   \* MeetingScheduler state: the form's fields
    alertShown  \* the browser's alert box is up

\* The state of the meeting scheduler and of the contexts it reads.
mvars == <<meetings, users, currentUser, showAddForm, formData, alertShown>>

vars == <<records, now, req, rd, mvars>>

\* getTodayRange of ../utils/date: the half-open day [today, tomorrow)
\* that holds the current instant.
getTodayRange ==
    LET today == now - (now % TicksPerDay)
    IN  [today |-> today, tomorrow |-> today + TicksPerDay]

NoRange == [today |-> -1, tomorrow |-> -1]

IdleReq ==
    [pc |-> "idle", caller |-> NULL, employeeId |-> UNDEF, status |-> UNDEF,
     checkInTime |-> UNDEF, employeeName |-> NULL, range |-> NoRange,
     saved |-> FALSE, err |-> NULL, res |-> NoRes]

\* authorize(...roles) of ../middleware/auth: the caller's role must be one
\* of the listed roles.
authorize(roles, caller) == Directory[caller].role \in roles

\* The roles the mark-attendance route lets in.
MarkAllowedRolesWithEmployee == {"hr", "admin", "employee"}
MarkAllowedRoles == {"hr", "admin"}

\* The body validation of mark-attendance: the response it rejects with, or
\* NoRes when the body passes.
ValidateMarkNoCheckInRule(employeeId, status, checkInTime) ==
    IF ~Truthy(employeeId) \/ ~Truthy(status) \/ status \notin ATTENDANCE_STATUS
    THEN ResInvalidInput
    ELSE NoRes
ValidateMarkRejectsStrayCheckIn(employeeId, status, checkInTime) ==
    IF ~Truthy(employeeId) \/ ~Truthy(status) \/ status \notin ATTENDANCE_STATUS
    THEN ResInvalidInput
    ELSE IF status = "present" /\ ~Truthy(checkInTime)
    THEN ResCheckInRequired
    ELSE IF status # "present" /\ Truthy(checkInTime)
    THEN ResInvalidInput
    ELSE NoRes
ValidateMark(employeeId, status, checkInTime) ==
    IF ~Truthy(employeeId) \/ ~Truthy(status) \/ status \notin ATTENDANCE_STATUS
    THEN ResInvalidInput
    ELSE IF status = "present" /\ ~Truthy(checkInTime)
    THEN ResCheckInRequired
    ELSE NoRes

\* User.findOne({_id, role: 'employee', ...(hr ? {createdBy: caller} : {})}):
\* the set of matching users (empty or a singleton).
FindEmployeeAnyCreator(caller, employeeId) ==
    {u \in UserIds : /\ Directory[u]._id = employeeId
                     /\ Directory[u].role = "employee"}
FindEmployeeAnyRole(caller, employeeId) ==
    {u \in UserIds : /\ Directory[u]._id = employeeId
                     /\ (Directory[caller].role = "hr"
                            => Directory[u].createdBy = caller)}
FindEmployee(caller, employeeId) ==
    {u \in UserIds : /\ Directory[u]._id = employeeId
                     /\ Directory[u].role = "employee"
                     /\ (Directory[caller].role = "hr"
                            => Directory[u].createdBy = caller)}

\* The response to a subject User.findOne did not return.
ScopeRejectionTellsOutOfScope(caller, employeeId) ==
    IF employeeId \in UserIds THEN ResForbidden ELSE ResNotFound
ScopeRejection(caller, employeeId) == ResNotFound

\* Attendance.findOne({employeeId, date: {$gte: today, $lt: tomorrow}}).
FindExistingAfterDayStart(employeeId, range) ==
    {r \in records : /\ r.employeeId = employeeId
                     /\ r.date > range.today
                     /\ r.date < range.tomorrow}
FindExistingAnySubject(employeeId, range) ==
    {r \in records : /\ r.date >= range.today
                     /\ r.date < range.tomorrow}
FindExisting(employeeId, range) ==
    {r \in records : /\ r.employeeId = employeeId
                     /\ r.date >= range.today
                     /\ r.date < range.tomorrow}

\* new Attendance({...}) of mark-attendance, from the request's fields.
NewAttendanceRawDate(q) ==
    [employeeId |-> q.employeeId, employeeName |-> q.employeeName,
     status |-> q.status,
     checkInTime |-> IF q.status = "present" THEN q.checkInTime ELSE NULL,
     markedBy |-> q.caller, date |-> now]
NewAttendanceKeepCheckIn(q) ==
    [employeeId |-> q.employeeId, employeeName |-> q.employeeName,
     status |-> q.status,
     checkInTime |-> IF Truthy(q.checkInTime) THEN q.checkInTime ELSE NULL,
     markedBy |-> q.caller, date |-> q.range.today]
NewAttendanceMarkedBySubject(q) ==
    [employeeId |-> q.employeeId, employeeName |-> q.employeeName,
     status |-> q.status,
     checkInTime |-> IF q.status = "present" THEN q.checkInTime ELSE NULL,
     markedBy |-> q.employeeId, date |-> q.range.today]
NewAttendanceNameIsId(q) ==
    [employeeId |-> q.employeeId, employeeName |-> q.employeeId,
     status |-> q.status,
     checkInTime |-> IF q.status = "present" THEN q.checkInTime ELSE NULL,
     markedBy |-> q.caller, date |-> q.range.today]
NewAttendanceFreshDay(q) ==
    [employeeId |-> q.employeeId, employeeName |-> q.employeeName,
     status |-> q.status,
     checkInTime |-> IF q.status = "present" THEN q.checkInTime ELSE NULL,
     markedBy |-> q.caller, date |-> getTodayRange.today]
NewAttendance(q) ==
    [employeeId |-> q.employeeId, employeeName |-> q.employeeName,
     status |-> q.status,
     checkInTime |-> IF q.status = "present" THEN q.checkInTime ELSE NULL,
     markedBy |-> q.caller, date |-> q.range.today]

\* The unique compound index of the Attendance collection on
\* (employeeId, date): a document that collides with a stored one.
UniqueIndexConflict(doc) ==
    \E r \in records : r.employeeId = doc.employeeId /\ r.date = doc.date

\* attendance.save() of a document the index accepts: the collection with
\* the document added.
InsertReplacingSubject(doc) ==
    {r \in records : r.employeeId # doc.employeeId} \cup {doc}
Insert(doc) == records \cup {doc}

\* ------------------------------------------------------ mark-attendance
Respond(c, res) == req' = [req EXCEPT ![c].pc = "done", ![c].res = res]

\* POST /: authorize, read the body, validate, issue User.findOne.
MarkStart(c) ==
    /\ req[c].pc = "idle"
    /\ \E caller \in UserIds, employeeId \in EmployeeIdInputs,
          status \in StatusInputs, checkInTime \in CheckInInputs :
        LET q == [req[c] EXCEPT !.caller = caller, !.employeeId = employeeId,
                                !.status = status, !.checkInTime = checkInTime]
            v == ValidateMark(employeeId, status, checkInTime)
        IN  IF ~authorize(MarkAllowedRoles, caller)
            THEN req' = [req EXCEPT ![c] = [q EXCEPT !.pc = "done", !.res = ResForbidden]]
            ELSE IF v # NoRes
            THEN req' = [req EXCEPT ![c] = [q EXCEPT !.pc = "done", !.res = v]]
            ELSE req' = [req EXCEPT ![c] = [q EXCEPT !.pc = "findEmployee"]]
    /\ UNCHANGED <<records, now, rd, mvars>>

\* User.findOne resolves: 404 when nothing matches; otherwise compute the
\* day range and issue Attendance.findOne.
MarkFindEmployee(c) ==
    /\ req[c].pc = "findEmployee"
    /\ LET found == FindEmployee(req[c].caller, req[c].employeeId)
       IN  IF found = {}
           THEN Respond(c, ScopeRejection(req[c].caller, req[c].employeeId))
           ELSE \E u \in found :
                  req' = [req EXCEPT ![c].pc = "findExisting",
                                     ![c].employeeName = users[u].name,
                                     ![c].range = getTodayRange]
    /\ UNCHANGED <<records, now, rd, mvars>>

\* Attendance.findOne resolves: 400 when a record exists for the day;
\* otherwise build the document and issue save.
MarkFindExisting(c) ==
    /\ req[c].pc = "findExisting"
    /\ IF FindExisting(req[c].employeeId, req[c].range) # {}
       THEN Respond(c, ResDuplicate)
       ELSE req' = [req EXCEPT ![c].pc = "save"]
    /\ UNCHANGED <<records, now, rd, mvars>>

\* attendance.save() resolves: the insert, or the index's duplicate-key
\* error, which the catch block turns into the 500 response.
MarkSave(c) ==
    /\ req[c].pc = "save"
    /\ LET doc == NewAttendance(req[c])
       IN  IF UniqueIndexConflict(doc)
           THEN /\ req' = [req EXCEPT ![c].pc = "done", ![c].err = "DuplicateKey",
                                      ![c].res = ResMarkFailed]
                /\ UNCHANGED records
           ELSE /\ records' = Insert(doc)
                /\ req' = [req EXCEPT ![c].pc = "populateEmployee", ![c].saved = TRUE]
    /\ UNCHANGED <<now, rd, mvars>>

\* attendance.populate('employeeId') resolves.
MarkPopulateEmployee(c) ==
    /\ req[c].pc = "populateEmployee"
    /\ req' = [req EXCEPT ![c].pc = "populateMarkedBy"]
    /\ UNCHANGED <<records, now, rd, mvars>>

\* attendance.populate('markedBy') resolves: respond 201.
MarkPopulateMarkedBy(c) ==
    /\ req[c].pc = "populateMarkedBy"
    /\ Respond(c, ResCreated)
    /\ UNCHANGED <<records, now, rd, mvars>>

\* An awaited directory or store call rejects (the collaborator is
\* unavailable): the catch block logs and responds 500.
AwaitPcs == {"findEmployee", "findExisting", "save", "populateEmployee", "populateMarkedBy"}

MarkAwaitFails(c) ==
    /\ req[c].pc \in AwaitPcs
    /\ req' = [req EXCEPT ![c].pc = "done", ![c].err = "Unavailable",
                          ![c].res = ResMarkFailed]
    /\ UNCHANGED <<records, now, rd, mvars>>

\* ---------------------------------------------------------------- reads
ResListFailed == Res(500, "Failed to fetch attendance records")
ResTodayFailed == Res(500, "Failed to fetch today's attendance")
ResEmployeesFailed == Res(500, "Failed to fetch employees")
ResOk == Res(200, NULL)

\* The `query` object of a read handler: `byEmployee` tells whether the
\* handler has set the employeeId filter ($in employeeId), `date` is NoRange
\* without a date filter.
EmptyQuery == [byEmployee |-> FALSE, employeeId |-> {}, date |-> NoRange]

IdleRd ==
    [pc |-> "idle", op |-> NULL, caller |-> NULL, query |-> EmptyQuery,
     queried |-> FALSE, res |-> NoRes, body |-> <<>>]

\* The roles the privileged reads let in.
ReadAllowedRoles == {"hr", "admin"}

\* User.find({createdBy: caller}), mapped to the users' ids.
CreatedByIds(caller) == {u \in UserIds : Directory[u].createdBy = caller}

\* Attendance.find(query): the documents the filter matches.
AttendanceFindNoFilter(query) ==
    {r \in records :
        query.date # NoRange => (r.date >= query.date.today /\ r.date < query.date.tomorrow)}
AttendanceFindClosedRange(query) ==
    {r \in records :
        /\ query.byEmployee => r.employeeId \in query.employeeId
        /\ query.date # NoRange => (r.date >= query.date.today /\ r.date <= query.date.tomorrow)}
AttendanceFind(query) ==
    {r \in records :
        /\ query.byEmployee => r.employeeId \in query.employeeId
        /\ query.date # NoRange => (r.date >= query.date.today /\ r.date < query.date.tomorrow)}

\* The projection 'name email role' of a user (null when the id names none).
UserView(id) ==
    IF id \in UserIds
    THEN [_id |-> id, name |-> Directory[id].name, role |-> Directory[id].role]
    ELSE [_id |-> NULL, name |-> NULL, role |-> NULL]

\* .populate('employeeId', ...).populate('markedBy', ...)
Populate(r) ==
    [r EXCEPT !.employeeId = UserView(r.employeeId), !.markedBy = UserView(r.markedBy)]

\* The orders a cursor may deliver a set of documents in.
Orders(S) ==
    {s \in [1..Cardinality(S) -> S] : \A i, j \in DOMAIN s : i # j => s[i] # s[j]}

\* .sort({date: -1}): the orders with dates descending.
SortDateAsc(S) ==
    {s \in Orders(S) : \A i, j \in DOMAIN s : i < j => s[i].date <= s[j].date}
SortDateDesc(S) ==
    {s \in Orders(S) : \A i, j \in DOMAIN s : i < j => s[i].date >= s[j].date}

\* GET /: build the query from the caller's role.
ListStart ==
    /\ rd.pc = "idle"
    /\ \E caller \in UserIds :
        LET q == [rd EXCEPT !.op = "list", !.caller = caller]
        IN  IF Directory[caller].role = "employee"
            THEN rd' = [q EXCEPT !.pc = "find", !.queried = TRUE,
                                 !.query.byEmployee = TRUE,
                                 !.query.employeeId = {caller}]
            ELSE IF Directory[caller].role = "hr"
            THEN rd' = [q EXCEPT !.pc = "users"]
            ELSE rd' = [q EXCEPT !.pc = "find", !.queried = TRUE]
    /\ UNCHANGED <<records, now, req, mvars>>

\* GET /today: authorize, take the day range, build the query.
TodayStart ==
    /\ rd.pc = "idle"
    /\ \E caller \in UserIds :
        LET q == [rd EXCEPT !.op = "today", !.caller = caller]
        IN  IF ~authorize(ReadAllowedRoles, caller)
            THEN rd' = [q EXCEPT !.pc = "done", !.res = ResForbidden]
            ELSE IF Directory[caller].role = "hr"
            THEN rd' = [q EXCEPT !.pc = "users", !.query.date = getTodayRange]
            ELSE rd' = [q EXCEPT !.pc = "find", !.queried = TRUE,
                                 !.query.date = getTodayRange]
    /\ UNCHANGED <<records, now, req, mvars>>

\* User.find({createdBy}) of GET / and GET /today resolves: an hr caller
\* without created users gets [] at once, else the employeeId filter is set
\* and Attendance.find issued.
HrUsersKeepGoing(employeeIds) == FALSE
HrUsersEmpty(employeeIds) == employeeIds = {}

ReadUsers ==
    /\ rd.pc = "users"
    /\ LET employeeIds == CreatedByIds(rd.caller)
       IN  IF HrUsersEmpty(employeeIds)
           THEN rd' = [rd EXCEPT !.pc = "done", !.res = ResOk, !.body = <<>>]
           ELSE rd' = [rd EXCEPT !.pc = "find", !.queried = TRUE,
                                 !.query.byEmployee = TRUE,
                                 !.query.employeeId = employeeIds]
    /\ UNCHANGED <<records, now, req, mvars>>

\* Attendance.find(query).populate(...)[.sort({date: -1})] resolves.
ReadFind ==
    /\ rd.pc = "find"
    /\ LET docs == {Populate(r) : r \in AttendanceFind(rd.query)}
       IN  \E body \in (IF rd.op = "list" THEN SortDateDesc(docs) ELSE Orders(docs)) :
             rd' = [rd EXCEPT !.pc = "done", !.res = ResOk, !.body = body]
    /\ UNCHANGED <<records, now, req, mvars>>

\* GET /employees: authorize, build the user query, issue User.find.
EmployeesStart ==
    /\ rd.pc = "idle"
    /\ \E caller \in UserIds :
        LET q == [rd EXCEPT !.op = "employees", !.caller = caller]
        IN  IF ~authorize(ReadAllowedRoles, caller)
            THEN rd' = [q EXCEPT !.pc = "done", !.res = ResForbidden]
            ELSE rd' = [q EXCEPT !.pc = "employees"]
    /\ UNCHANGED <<records, now, req, mvars>>

\* User.find({role: 'employee', createdBy?}).select('name email role').
EmployeesQueryAnyCreator(caller) ==
    {u \in UserIds : Directory[u].role = "employee"}
EmployeesQuery(caller) ==
    {u \in UserIds : /\ Directory[u].role = "employee"
                     /\ (Directory[caller].role = "hr" => Directory[u].createdBy = caller)}

EmployeesFind ==
    /\ rd.pc = "employees"
    /\ \E body \in Orders({UserView(u) : u \in EmployeesQuery(rd.caller)}) :
         rd' = [rd EXCEPT !.pc = "done", !.res = ResOk, !.body = body]
    /\ UNCHANGED <<records, now, req, mvars>>

\* An awaited call of a read handler rejects: its catch block responds 500.
ReadAwaitFails ==
    /\ rd.pc \in {"users", "find", "employees"}
    /\ rd' = [rd EXCEPT !.pc = "done",
                        !.res = CASE rd.op = "list" -> ResListFailed
                                  [] rd.op = "today" -> ResTodayFailed
                                  [] OTHER -> ResEmployeesFailed]
    /\ UNCHANGED <<records, now, req, mvars>>

\* The connection takes the next read request.
ReadNext ==
    /\ rd.pc = "done"
    /\ rd' = IdleRd
    /\ UNCHANGED <<records, now, req, mvars>>

\* The clock advances.
Tick ==
    /\ now < MaxNow
    /\ now' = now + 1
    /\ UNCHANGED <<records, req, rd, mvars>>

\* ------------------------------------------------------ MeetingScheduler
\* The most meetings the data context holds.
MaxMeetings == 2

\* What the title and date inputs can hold: strings are sequences of
\* characters; a datetime-local input is empty or holds a timestamp.
TitleInputs == {<<>>, <<" ">>, <<" ", "a">>}
DateTimeInputs == {"", "2025-01-01T10:00"}
DefaultDuration == 60

\* String.prototype.trim(): leading and trailing whitespace removed.
RECURSIVE TrimStart(_)
TrimStart(s) == IF s # <<>> /\ Head(s) = " " THEN TrimStart(Tail(s)) ELSE s
RECURSIVE TrimEnd(_)
TrimEnd(s) ==
    IF s # <<>> /\ s[Len(s)] = " " THEN TrimEnd(SubSeq(s, 1, Len(s) - 1)) ELSE s
trim(s) == TrimEnd(TrimStart(s))

\* The initial value of the formData state, also set after a submission.
EmptyForm ==
    [title |-> <<>>, description |-> <<>>, dateTime |-> "",
     duration |-> DefaultDuration, attendees |-> {}]

\* The `role` prop: each dashboard mounts the scheduler with the role of
\* the user it is the dashboard of.
role == users[currentUser].role

\* getUsersByRole of the auth context.
getUsersByRole(r) == {u \in UserIds : users[u].role = r}

\* targetUsers: the users the form offers as attendees.
targetUsers ==
    IF role = "admin"
    THEN getUsersByRole("hr")
    ELSE {emp \in getUsersByRole("employee") : users[emp].createdBy = currentUser}

\* getMeetingsByUser of the data context: the positions of the meetings the
\* user organizes or attends.
getMeetingsByUser(userId) ==
    {i \in DOMAIN meetings :
        meetings[i].scheduledBy = userId \/ userId \in meetings[i].attendees}

myMeetings == getMeetingsByUser(currentUser)

\* addMeeting of the data context: the meeting is stored, scheduled, under
\* a fresh id.
addMeeting(m) ==
    Append(meetings,
           [id |-> Len(meetings) + 1, title |-> m.title,
            description |-> m.description, dateTime |-> m.dateTime,
            duration |-> m.duration, attendees |-> m.attendees,
            scheduledBy |-> m.scheduledBy, status |-> "scheduled"])

\* updateMeeting of the data context: the meeting of that id takes the
\* status of the update.
updateMeeting(id, status) ==
    [i \in DOMAIN meetings |->
        IF meetings[i].id = id THEN [meetings[i] EXCEPT !.status = status]
        ELSE meetings[i]]

\* The test at the head of handleSubmit: the submission is turned away.
SubmitRejectedNoTrim(fd) ==
    fd.title = <<>> \/ fd.dateTime = "" \/ Cardinality(fd.attendees) = 0
SubmitRejected(fd) ==
    trim(fd.title) = <<>> \/ fd.dateTime = "" \/ Cardinality(fd.attendees) = 0

\* The condition under which a meeting card shows "Mark Complete" and
\* "Cancel".
StatusButtonsShownAnyStatus(r, meeting) == r # "employee"
StatusButtonsShownToAll(r, meeting) == meeting.status = "scheduled"
StatusButtonsShown(r, meeting) == r # "employee" /\ meeting.status = "scheduled"

\* A dashboard mounts the scheduler for a user: fresh component state.
Mount(u) ==
    /\ ~alertShown
    /\ u # currentUser
    /\ currentUser' = u
    /\ showAddForm' = FALSE
    /\ formData' = EmptyForm
    /\ UNCHANGED <<meetings, users, alertShown, records, now, req, rd>>

\* "Schedule Meeting" in the header, rendered unless role is employee.
OpenForm ==
    /\ ~alertShown
    /\ role # "employee"
    /\ ~showAddForm
    /\ showAddForm' = TRUE
    /\ UNCHANGED <<meetings, users, currentUser, formData, alertShown,
                   records, now, req, rd>>

\* "Cancel" in the form: the form closes and keeps its fields.
CancelForm ==
    /\ ~alertShown
    /\ showAddForm
    /\ showAddForm' = FALSE
    /\ UNCHANGED <<meetings, users, currentUser, formData, alertShown,
                   records, now, req, rd>>

\* onChange of the title input.
SetTitle(t) ==
    /\ ~alertShown
    /\ showAddForm
    /\ formData.title # t
    /\ formData' = [formData EXCEPT !.title = t]
    /\ UNCHANGED <<meetings, users, currentUser, showAddForm, alertShown,
                   records, now, req, rd>>

\* onChange of the date input.
SetDateTime(d) ==
    /\ ~alertShown
    /\ showAddForm
    /\ formData.dateTime # d
    /\ formData' = [formData EXCEPT !.dateTime = d]
    /\ UNCHANGED <<meetings, users, currentUser, showAddForm, alertShown,
                   records, now, req, rd>>

\* handleAttendeeChange, from the checkbox of one of targetUsers.
handleAttendeeChange(userId) ==
    /\ ~alertShown
    /\ showAddForm
    /\ userId \in targetUsers
    /\ formData' = [formData EXCEPT !.attendees =
                        IF userId \in formData.attendees
                        THEN formData.attendees \ {userId}
                        ELSE formData.attendees \cup {userId}]
    /\ UNCHANGED <<meetings, users, currentUser, showAddForm, alertShown,
                   records, now, req, rd>>

\* handleSubmit: alert and return, or add the meeting, reset the fields and
\* close the form.
handleSubmit ==
    /\ ~alertShown
    /\ showAddForm
    /\ IF SubmitRejected(formData)
       THEN /\ alertShown' = TRUE
            /\ UNCHANGED <<meetings, formData, showAddForm>>
       ELSE /\ Len(meetings) < MaxMeetings
            /\ meetings' = addMeeting(formData @@ [scheduledBy |-> currentUser])
            /\ formData' = EmptyForm
            /\ showAddForm' = FALSE
            /\ UNCHANGED alertShown
    /\ UNCHANGED <<users, currentUser, records, now, req, rd>>

\* The user closes the alert box.
DismissAlert ==
    /\ alertShown
    /\ alertShown' = FALSE
    /\ UNCHANGED <<meetings, users, currentUser, showAddForm, formData,
                   records, now, req, rd>>

\* "Mark Complete" or "Cancel" on the card of one of myMeetings.
UpdateStatus(i, status) ==
    /\ ~alertShown
    /\ i \in myMeetings
    /\ StatusButtonsShown(role, meetings[i])
    /\ meetings' = updateMeeting(meetings[i].id, status)
    /\ UNCHANGED <<users, currentUser, showAddForm, formData, alertShown,
                   records, now, req, rd>>

\* The directory hands an employee of one hr user over to another hr user
\* and the auth context reloads its users.
Reassign(emp, hr) ==
    /\ users[emp].role = "employee"
    /\ users[hr].role = "hr"
    /\ users[emp].createdBy # hr
    /\ users[users[emp].createdBy].role = "hr"
    /\ users' = [users EXCEPT ![emp].createdBy = hr]
    /\ UNCHANGED <<meetings, currentUser, showAddForm, formData, alertShown,
                   records, now, req, rd>>

\* The names a user may be given later on.
NewNames == {"Evelyn"}

\* The directory changes the display name of an employee.
Rename(u, name) ==
    /\ users[u].role = "employee"
    /\ users[u].name # name
    /\ users' = [users EXCEPT ![u].name = name]
    /\ UNCHANGED <<meetings, currentUser, showAddForm, formData, alertShown,
                   records, now, req, rd>>

\* The scheduler as the admin's dashboard first mounts it.
InitMeeting ==
    /\ meetings = <<>>
    /\ users = Directory
    /\ currentUser = "adm"
    /\ showAddForm = FALSE
    /\ formData = EmptyForm
    /\ alertShown = FALSE

Init ==
    /\ records = {}
    /\ now = 0
    /\ req = [c \in Conns |-> IdleReq]
    /\ rd = IdleRd
    /\ InitMeeting

Next ==
    \/ \E c \in Conns : MarkStart(c)
    \/ \E c \in Conns : MarkFindEmployee(c)
    \/ \E c \in Conns : MarkFindExisting(c)
    \/ \E c \in Conns : MarkSave(c)
    \/ \E c \in Conns : MarkPopulateEmployee(c)
    \/ \E c \in Conns : MarkPopulateMarkedBy(c)
    \/ \E c \in Conns : MarkAwaitFails(c)
    \/ Tick

Spec == Init /\ [][Next]_vars

\* ------------------------------------------------- the reads' own runs
\* Days the modelled clock reaches.
DayStarts == {t \in 0..MaxNow : t % TicksPerDay = 0}

\* The documents mark-attendance can have saved by the time `t`.
MarkableDocs(t) ==
    {NewAttendance([IdleReq EXCEPT !.caller = caller, !.employeeId = employeeId,
                                   !.status = status, !.checkInTime = checkIn,
                                   !.employeeName = Directory[u].name,
                                   !.range = [today |-> d, tomorrow |-> d + TicksPerDay]]) :
        <<caller, employeeId, status, checkIn, u, d>> \in
            {x \in UserIds \X EmployeeIdInputs \X StatusInputs \X CheckInInputs
                    \X UserIds \X DayStarts :
                /\ authorize(MarkAllowedRoles, x[1])
                /\ ValidateMark(x[2], x[3], x[4]) = NoRes
                /\ x[5] \in FindEmployee(x[1], x[2])
                /\ x[6] <= t}}

\* The stores mark-attendance can have left behind: at most one document
\* per (employeeId, date), as the unique index keeps it.
Stores(t) ==
    {S \in SUBSET MarkableDocs(t) :
        \A r1, r2 \in S : (r1.employeeId = r2.employeeId /\ r1.date = r2.date) => r1 = r2}

InitRead ==
    /\ now \in 0..MaxNow
    /\ records \in Stores(now)
    /\ req = [c \in Conns |-> IdleReq]
    /\ rd = IdleRd
    /\ InitMeeting

NextRead ==
    \/ ListStart
    \/ TodayStart
    \/ EmployeesStart
    \/ ReadUsers
    \/ ReadFind
    \/ EmployeesFind
    \/ ReadAwaitFails
    \/ ReadNext
    \/ Tick

SpecRead == InitRead /\ [][NextRead]_vars

\* ------------------------------------- reads and marks on one server
\* The connection that marks while the read handlers run.
Marker == "c1"

\* The server on the first day, holding what earlier requests of that day
\* have saved.
InitAll ==
    /\ now = 0
    /\ records \in Stores(0)
    /\ req = [c \in Conns |-> IdleReq]
    /\ rd = IdleRd
    /\ InitMeeting

NextAll ==
    \/ MarkStart(Marker)
    \/ MarkFindEmployee(Marker)
    \/ MarkFindExisting(Marker)
    \/ MarkSave(Marker)
    \/ MarkPopulateEmployee(Marker)
    \/ MarkPopulateMarkedBy(Marker)
    \/ MarkAwaitFails(Marker)
    \/ ListStart
    \/ TodayStart
    \/ EmployeesStart
    \/ ReadUsers
    \/ ReadFind
    \/ EmployeesFind
    \/ ReadAwaitFails
    \/ ReadNext
    \/ Tick

SpecAll == InitAll /\ [][NextAll]_vars

\* ------------------------------------- marks while the directory renames
NextRename ==
    \/ MarkStart(Marker)
    \/ MarkFindEmployee(Marker)
    \/ MarkFindExisting(Marker)
    \/ MarkSave(Marker)
    \/ MarkPopulateEmployee(Marker)
    \/ MarkPopulateMarkedBy(Marker)
    \/ MarkAwaitFails(Marker)
    \/ \E u \in UserIds :
          \E name \in NewNames \cup {Directory[u].name} : Rename(u, name)
    \/ Tick

SpecRename == InitAll /\ [][NextRename]_vars

\* -------------------------------------------------- the scheduler's runs
NextMeeting ==
    \/ \E u \in UserIds : Mount(u)
    \/ OpenForm
    \/ CancelForm
    \/ \E t \in TitleInputs : SetTitle(t)
    \/ \E d \in DateTimeInputs : SetDateTime(d)
    \/ \E userId \in UserIds : handleAttendeeChange(userId)
    \/ handleSubmit
    \/ DismissAlert
    \/ \E i \in 1..MaxMeetings, status \in {"completed", "cancelled"} : UpdateStatus(i, status)
    \/ \E emp, hr \in UserIds : Reassign(emp, hr)

SpecMeeting == Init /\ [][NextMeeting]_vars

\* =====================================================================
\* Properties
\* =====================================================================
\* The calendar day of a stored date.
DayOf(t) == t \div TicksPerDay

Started(c) == req[c].pc # "idle"
Done(c) == req[c].pc = "done"
RoleOf(u) == Directory[u].role

\* The subject lies outside what the caller may mark: it names no user, it
\* is no employee, or the caller is an hr user who did not create it.
OutOfMarkScope(caller, employeeId) ==
    \/ employeeId \notin UserIds
    \/ RoleOf(employeeId) # "employee"
    \/ (RoleOf(caller) = "hr" /\ Directory[employeeId].createdBy # caller)

\* A request field that is absent: undefined, null or empty.
Missing(x) == x \in {UNDEF, NULL, ""}

\* The body breaks a rule of the record validator: a required field is
\* missing, the status is not an allowed one, or status present comes
\* without a check-in time.
BodyInvalid(q) ==
    \/ Missing(q.employeeId)
    \/ Missing(q.status)
    \/ q.status \notin ATTENDANCE_STATUS
    \/ (q.status = "present" /\ Missing(q.checkInTime))

NotFoundOrForbidden(res) == res.status \in {403, 404}
Persisted(res) == res.status = 201
DuplicateForPeriod(res) == res = ResDuplicate
ValidationFailed(res) == res \in {ResInvalidInput, ResCheckInRequired}

\* ---------------------------------------------------------------- C1
\* C1: in every reachable state of the record store, whatever the
\* interleaving of mark-attendance requests, no two different records share
\* a subject and a calendar day.
C1_OneRecordPerSubjectPerDay ==
    \A r1, r2 \in records :
        (r1.employeeId = r2.employeeId /\ DayOf(r1.date) = DayOf(r2.date)) => r1 = r2

\* Two requests for one subject and day both passed the duplicate check
\* before either saved; one saved and the other was stopped at save.
C1_Witness ==
    \E c, d \in Conns :
        /\ c # d
        /\ req[c].saved
        /\ req[d].err = "DuplicateKey"
        /\ req[c].employeeId = req[d].employeeId
        /\ req[c].range = req[d].range

\* ---------------------------------------------------------------- C2
\* C2: of two finished mark-attendance requests for the same subject and
\* day that both reached the duplicate check and met no unavailable
\* collaborator, exactly one is Persisted and the other is rejected
\* DuplicateForPeriod; a writer stopped by the storage constraint at save
\* gets DuplicateForPeriod and nothing else.
C2_RaceLoserGetsDuplicate ==
    /\ \A c \in Conns :
          req[c].err = "DuplicateKey" => DuplicateForPeriod(req[c].res)
    /\ \A c, d \in Conns :
          (/\ c # d
           /\ Done(c) /\ Done(d)
           /\ req[c].range # NoRange /\ req[c].range = req[d].range
           /\ req[c].employeeId = req[d].employeeId
           /\ req[c].err # "Unavailable" /\ req[d].err # "Unavailable")
          => \/ Persisted(req[c].res) /\ DuplicateForPeriod(req[d].res)
             \/ Persisted(req[d].res) /\ DuplicateForPeriod(req[c].res)

\* ---------------------------------------------------------------- C3
\* C3: every stored record has status present exactly when its checkInTime
\* is non-null.
C3_PresentIffCheckIn ==
    \A r \in records : (r.status = "present") <=> (r.checkInTime # NULL)

\* A non-present mark that carried a check-in time and a present mark have
\* both been saved.
C3_Witness ==
    \E c, d \in Conns :
        /\ req[c].saved /\ req[c].status = "absent" /\ req[c].checkInTime = "09:00"
        /\ req[d].saved /\ req[d].status = "present"

\* ---------------------------------------------------------------- C4
\* C4: a mark-attendance request that ended with a failure response (any
\* response other than 201) has not inserted a record.
C4_FailureLeavesNoRecord ==
    \A c \in Conns : (Done(c) /\ ~Persisted(req[c].res)) => ~req[c].saved

\* ---------------------------------------------------------------- C5
\* C5: a mark-attendance request of an employee caller is rejected
\* (Forbidden/NotFound) for every subject and inserts nothing, and every
\* stored record was marked by an hr or admin user.
C5_EmployeeNeverMarks ==
    /\ \A c \in Conns :
          (Started(c) /\ RoleOf(req[c].caller) = "employee")
          => /\ Done(c)
             /\ NotFoundOrForbidden(req[c].res)
             /\ ~req[c].saved
    /\ \A r \in records : RoleOf(r.markedBy) \in {"hr", "admin"}

\* An employee tried to mark themselves with a valid body while another
\* request persisted a record.
C5_Witness ==
    \E c, d \in Conns :
        /\ Done(c) /\ RoleOf(req[c].caller) = "employee"
        /\ req[c].employeeId = req[c].caller
        /\ ~BodyInvalid(req[c])
        /\ req[d].saved

\* ---------------------------------------------------------------- C6
\* C6 as stated: every finished request that names a subject out of the
\* caller's mark scope, and whose lookups met no unavailable collaborator,
\* was rejected NotFoundOrForbidden and inserted nothing.
C6_OutOfScopeAlwaysNotFound ==
    \A c \in Conns :
        (Done(c) /\ req[c].err = NULL
         /\ ~Missing(req[c].employeeId)
         /\ OutOfMarkScope(req[c].caller, req[c].employeeId))
        => NotFoundOrForbidden(req[c].res) /\ ~req[c].saved

\* C6 as amended: a request whose subject is out of the caller's mark scope
\* never inserts and never ends Persisted; it is rejected
\* NotFoundOrForbidden when its body passes validation and no lookup was
\* unavailable (an invalid body is rejected ValidationFailed before the
\* scope is looked at); so every stored record's subject is an employee and,
\* when marked by an hr user, was created by that user.
C6_OutOfScopeRejected ==
    /\ \A c \in Conns :
          (Started(c) /\ OutOfMarkScope(req[c].caller, req[c].employeeId))
          => /\ ~req[c].saved
             /\ Done(c) => ~Persisted(req[c].res)
             /\ (Done(c) /\ req[c].err = NULL /\ ~BodyInvalid(req[c]))
                => NotFoundOrForbidden(req[c].res)
    /\ \A r \in records :
          /\ r.employeeId \in UserIds
          /\ RoleOf(r.employeeId) = "employee"
          /\ RoleOf(r.markedBy) = "hr" => Directory[r.employeeId].createdBy = r.markedBy

\* An hr caller's valid request for an existing employee it did not create
\* was rejected 404, and so was an admin's request for a non-employee.
C6_Witness ==
    \E c, d \in Conns :
        /\ Done(c) /\ RoleOf(req[c].caller) = "hr"
        /\ req[c].employeeId \in UserIds
        /\ RoleOf(req[c].employeeId) = "employee"
        /\ Directory[req[c].employeeId].createdBy # req[c].caller
        /\ req[c].res = ResNotFound
        /\ Done(d) /\ RoleOf(req[d].caller) = "admin"
        /\ req[d].employeeId = "h1"
        /\ req[d].res = ResNotFound

\* ---------------------------------------------------------------- C7
\* C7: two finished requests of the same hr caller with the same status and
\* checkInTime, one naming no user and one naming an existing user outside
\* the caller's scope, neither meeting an unavailable collaborator, carry
\* the same response (status and message).
C7_MissingAndOutOfScopeAlike ==
    \A c, d \in Conns :
        (/\ Done(c) /\ Done(d)
         /\ req[c].caller = req[d].caller
         /\ RoleOf(req[c].caller) = "hr"
         /\ req[c].status = req[d].status
         /\ req[c].checkInTime = req[d].checkInTime
         /\ req[c].employeeId = GhostId
         /\ req[d].employeeId \in UserIds
         /\ OutOfMarkScope(req[d].caller, req[d].employeeId)
         /\ req[c].err = NULL /\ req[d].err = NULL)
        => req[c].res = req[d].res

\* Such a pair reached the directory lookup and was answered.
C7_Witness ==
    \E c, d \in Conns :
        /\ Done(c) /\ Done(d)
        /\ req[c].caller = "h1" /\ req[d].caller = "h1"
        /\ req[c].status = "present" /\ req[d].status = "present"
        /\ req[c].checkInTime = "09:00" /\ req[d].checkInTime = "09:00"
        /\ req[c].employeeId = GhostId /\ req[d].employeeId = "e2"
        /\ req[c].res = ResNotFound /\ req[d].res = ResNotFound

\* ---------------------------------------------------------------- C8
\* The subjects a caller may see: everyone for an admin, the users the
\* caller created for an hr user, the caller alone for an employee.
InReadScope(caller, subject) ==
    CASE RoleOf(caller) = "admin" -> TRUE
      [] RoleOf(caller) = "hr" -> subject \in UserIds /\ Directory[subject].createdBy = caller
      [] OTHER -> subject = caller

\* The stored document a populated document of a response came from.
Unpopulate(b) == [b EXCEPT !.employeeId = b.employeeId._id, !.markedBy = b.markedBy._id]

BodySet(body) == {Unpopulate(body[i]) : i \in DOMAIN body}

\* C8: a successful list-attendance response holds, each once, exactly the
\* stored records whose subject is in the caller's read scope.
C8_ListIsExactlyScope ==
    (rd.pc = "done" /\ rd.op = "list" /\ rd.res = ResOk)
    => /\ BodySet(rd.body) = {r \in records : InReadScope(rd.caller, r.employeeId)}
       /\ Len(rd.body) = Cardinality(BodySet(rd.body))

\* An hr caller listed a store that holds records of its own employee and
\* of an employee it did not create.
C8_Witness ==
    /\ rd.pc = "done" /\ rd.op = "list" /\ rd.res = ResOk
    /\ rd.caller = "h1"
    /\ Len(rd.body) >= 2
    /\ \E r \in records : r.employeeId = "e2"

\* ---------------------------------------------------------------- C9
HasCreatedNobody(caller) == \A u \in UserIds : Directory[u].createdBy # caller

\* C9: for an hr caller that created no user, list-attendance and
\* list-markable-subjects never issue a query against the Attendance
\* collection, and unless the directory lookup itself was unavailable they
\* answer 200 with an empty list.
C9_EmptyScopeShortCircuits ==
    (/\ rd.pc # "idle"
     /\ rd.op \in {"list", "employees"}
     /\ RoleOf(rd.caller) = "hr"
     /\ HasCreatedNobody(rd.caller))
    => /\ ~rd.queried
       /\ (rd.pc = "done" /\ rd.res.status # 500) => (rd.res = ResOk /\ rd.body = <<>>)

\* Such a caller got its empty list while the store held records.
C9_Witness ==
    /\ rd.pc = "done" /\ rd.op = "list" /\ rd.res = ResOk
    /\ RoleOf(rd.caller) = "hr" /\ HasCreatedNobody(rd.caller)
    /\ records # {}

\* --------------------------------------------------------------- C10
HrOrAdmin(u) == RoleOf(u) \in {"hr", "admin"}

\* C10 as stated (scope, then uniqueness, then validation): a request of an
\* hr or admin caller that names a subject and carries an invalid status or
\* checkInTime is rejected NotFoundOrForbidden when the subject is out of
\* scope, and DuplicateForPeriod when the subject is in scope and already
\* has a record for today.
C10_ScopeAndUniquenessBeforeValidation ==
    [][\A c \in Conns :
        (/\ req[c].pc = "idle" /\ req'[c].pc = "done"
         /\ HrOrAdmin(req'[c].caller)
         /\ ~Missing(req'[c].employeeId)
         /\ BodyInvalid(req'[c]))
        => IF OutOfMarkScope(req'[c].caller, req'[c].employeeId)
           THEN NotFoundOrForbidden(req'[c].res)
           ELSE FindExisting(req'[c].employeeId, getTodayRange) # {}
                    => DuplicateForPeriod(req'[c].res)]_vars

\* How far each request has come, by what it carries: the stages run in the
\* order validation, scope, uniqueness, save.
StagesInOrder ==
    \A c \in Conns :
        Started(c) =>
            /\ HrOrAdmin(req[c].caller) /\ BodyInvalid(req[c])
                => /\ Done(c) /\ ValidationFailed(req[c].res)
                   /\ req[c].employeeName = NULL /\ req[c].range = NoRange
                   /\ ~req[c].saved
            /\ (/\ HrOrAdmin(req[c].caller) /\ ~BodyInvalid(req[c])
                /\ OutOfMarkScope(req[c].caller, req[c].employeeId))
                => /\ req[c].pc \in {"findEmployee", "done"}
                   /\ req[c].range = NoRange /\ ~req[c].saved
                   /\ (Done(c) /\ req[c].err = NULL) => NotFoundOrForbidden(req[c].res)
            /\ req[c].pc \in {"findExisting", "save", "populateEmployee", "populateMarkedBy"}
                => req[c].range # NoRange /\ req[c].employeeName # NULL
            /\ (DuplicateForPeriod(req[c].res) \/ req[c].saved)
                => /\ req[c].range # NoRange
                   /\ ~BodyInvalid(req[c])
                   /\ ~OutOfMarkScope(req[c].caller, req[c].employeeId)

\* C10 as amended (validation, then scope, then uniqueness, then save):
\*  - an invalid body is rejected ValidationFailed at once, out of scope or
\*    already marked or not, and neither lookup is ever run for it;
\*  - a valid request out of scope ends without the duplicate check being
\*    run, NotFoundOrForbidden unless the lookup was unavailable;
\*  - the duplicate check answers DuplicateForPeriod exactly when a record
\*    of the subject lies in the day range, and otherwise a save is issued.
C10_ValidationThenScopeThenUniqueness ==
    [][/\ StagesInOrder'
       /\ \A c \in Conns :
            (req[c].pc = "findExisting" /\ req'[c].pc # "findExisting"
             /\ req'[c].err = NULL)
            => IF FindExisting(req[c].employeeId, req[c].range) # {}
               THEN Done(c)' /\ DuplicateForPeriod(req'[c].res)
               ELSE req'[c].pc = "save"]_vars

\* A request with a missing check-in time for a subject in scope that
\* another request had already marked was rejected ValidationFailed.
C10_Witness ==
    \E c, d \in Conns :
        /\ c # d
        /\ req[d].saved /\ req[d].employeeId = "e1"
        /\ req[d].range = getTodayRange
        /\ Done(c) /\ req[c].caller = "h1" /\ req[c].employeeId = "e1"
        /\ req[c].status = "present" /\ req[c].checkInTime = ""
        /\ req[c].res = ResCheckInRequired

\* --------------------------------------------------------------- C11
\* The start of the calendar day that holds the instant t.
StartOfDay(t) == DayOf(t) * TicksPerDay

\* A record of the subject exists for the calendar day of `day`.
MarkedOn(employeeId, day) ==
    \E r \in records : r.employeeId = employeeId /\ DayOf(r.date) = DayOf(day)

\* The document r is what request q asked to record.
RecordsRequest(r, q) ==
    /\ r.employeeId = q.employeeId
    /\ r.markedBy = q.caller
    /\ r.status = q.status
    /\ q.status = "present" => r.checkInTime = q.checkInTime
    /\ r.date = q.range.today

\* C11: a request of an hr or admin caller for an in-scope employee with a
\* valid body is never turned away before the duplicate check; its day is
\* the start of the current day; with no record of the subject for that day
\* it goes on to save; its save adds exactly one record, the one asked for
\* (subject, markedBy = caller, status, check-in time for present, date =
\* start of day), and touches no other record; and having saved, it ends
\* Persisted unless a later collaborator call is unavailable.
C11_MarkAddsTheRecordAskedFor ==
    [][\A c \in Conns :
        /\ (/\ Done(c)' /\ HrOrAdmin(req'[c].caller) /\ ~BodyInvalid(req'[c])
            /\ ~OutOfMarkScope(req'[c].caller, req'[c].employeeId)
            /\ req'[c].err = NULL)
           => (Persisted(req'[c].res) \/ DuplicateForPeriod(req'[c].res))
        /\ (req[c].pc = "findEmployee" /\ req'[c].pc = "findExisting")
           => /\ req'[c].range.today = StartOfDay(now)
              /\ req'[c].range.tomorrow = StartOfDay(now) + TicksPerDay
        /\ (/\ req[c].pc = "findExisting" /\ req'[c].pc # "findExisting"
            /\ req'[c].err = NULL
            /\ ~MarkedOn(req[c].employeeId, req[c].range.today))
           => req'[c].pc = "save" /\ records' = records
        /\ (req[c].pc = "save" /\ req'[c].pc # "save" /\ req'[c].err = NULL)
           => /\ req'[c].saved
              /\ \E r \in records' :
                    /\ r \notin records
                    /\ records' = records \cup {r}
                    /\ RecordsRequest(r, req[c])
        /\ (~Done(c) /\ Done(c)' /\ req'[c].saved /\ req'[c].err = NULL)
           => Persisted(req'[c].res)
        /\ req[c].pc # "save" => (req'[c] # req[c] => records' = records)]_vars

\* h1 marked its employee present at 09:00: the request ended Persisted and
\* the store holds the record.
C11_Witness ==
    \E c \in Conns :
        /\ Done(c) /\ Persisted(req[c].res)
        /\ req[c].caller = "h1" /\ req[c].employeeId = "e1"
        /\ req[c].status = "present" /\ req[c].checkInTime = "09:00"
        /\ \E r \in records :
              /\ r.employeeId = "e1" /\ r.markedBy = "h1" /\ r.status = "present"
              /\ r.checkInTime = "09:00" /\ r.date = req[c].range.today

\* --------------------------------------------------------------- C12
\* C12 as stated: a request of an hr or admin caller with an allowed status
\* that arrives when the subject already has a record for the current day
\* changes no record and, when it is answered at once, is answered
\* DuplicateForPeriod.
C12_LaterRequestAlwaysDuplicate ==
    [][\A c \in Conns :
        (/\ req[c].pc = "idle" /\ Started(c)'
         /\ HrOrAdmin(req'[c].caller)
         /\ req'[c].status \in ATTENDANCE_STATUS
         /\ MarkedOn(req'[c].employeeId, now))
        => /\ records' = records
           /\ Done(c)' => DuplicateForPeriod(req'[c].res)]_vars

\* C12 as amended: a request that arrives for an already marked subject with
\* an invalid body is rejected ValidationFailed; one whose subject lookup
\* finds nothing is out of the caller's scope and rejected
\* NotFoundOrForbidden; a request whose duplicate
\* check runs while a record of the subject exists for the request's day is
\* rejected DuplicateForPeriod, whoever the caller and whatever the status;
\* a request rejected DuplicateForPeriod has saved nothing, and no step of a
\* request that has not saved changes the store.
C12_MarkedSubjectIsNotMarkedAgain ==
    [][\A c \in Conns :
        /\ (/\ req[c].pc = "idle" /\ Done(c)'
            /\ HrOrAdmin(req'[c].caller)
            /\ MarkedOn(req'[c].employeeId, now))
           => /\ BodyInvalid(req'[c]) /\ ValidationFailed(req'[c].res)
              /\ records' = records
        /\ (/\ req[c].pc = "findEmployee" /\ Done(c)' /\ req'[c].err = NULL
            /\ MarkedOn(req[c].employeeId, now))
           => /\ OutOfMarkScope(req[c].caller, req[c].employeeId)
              /\ NotFoundOrForbidden(req'[c].res)
              /\ records' = records
        /\ (/\ req[c].pc = "findExisting" /\ req'[c].pc # "findExisting"
            /\ req'[c].err = NULL
            /\ MarkedOn(req[c].employeeId, req[c].range.today))
           => /\ Done(c)' /\ DuplicateForPeriod(req'[c].res)
              /\ records' = records
        /\ (Done(c)' /\ DuplicateForPeriod(req'[c].res))
           => ~req'[c].saved /\ HrOrAdmin(req'[c].caller)
        /\ (req'[c] # req[c] /\ ~req'[c].saved) => records' = records]_vars

\* adm marked e1; a request of h1 for e1 on the same day, with another
\* status, was rejected DuplicateForPeriod and the store holds one record
\* of e1.
C12_Witness ==
    \E c, d \in Conns :
        /\ c # d
        /\ req[d].saved /\ req[d].caller = "adm" /\ req[d].employeeId = "e1"
        /\ req[d].status = "absent"
        /\ Done(c) /\ req[c].caller = "h1" /\ req[c].employeeId = "e1"
        /\ req[c].status = "present" /\ req[c].range = req[d].range
        /\ DuplicateForPeriod(req[c].res)
        /\ Cardinality({r \in records : r.employeeId = "e1"}) = 1

\* --------------------------------------------------------------- C17
\* C17: a request of an hr or admin caller that names a subject and carries
\* an allowed status other than present together with a check-in time is
\* not rejected by validation; when it saves, the record added, like every
\* stored record whose status is not present, has a null check-in time.
C17_StrayCheckInAcceptedAndDropped ==
    [][\A c \in Conns :
        /\ (/\ req[c].pc = "idle" /\ Started(c)'
            /\ HrOrAdmin(req'[c].caller)
            /\ ~Missing(req'[c].employeeId)
            /\ req'[c].status \in ATTENDANCE_STATUS \ {"present"}
            /\ ~Missing(req'[c].checkInTime))
           => ~Done(c)'
        /\ (/\ req[c].pc = "save" /\ req'[c].saved
            /\ req[c].status # "present")
           => \A r \in records' \ records : r.checkInTime = NULL
        /\ \A r \in records' : r.status # "present" => r.checkInTime = NULL]_vars

\* h1 marked its employee absent and sent a check-in time of 09:00: the
\* request ended Persisted and the stored record has no check-in time.
C17_Witness ==
    \E c \in Conns :
        /\ Done(c) /\ Persisted(req[c].res)
        /\ req[c].caller = "h1" /\ req[c].employeeId = "e1"
        /\ req[c].status = "absent" /\ req[c].checkInTime = "09:00"
        /\ \E r \in records :
              /\ r.employeeId = "e1" /\ r.date = req[c].range.today
              /\ r.status = "absent" /\ r.checkInTime = NULL

\* --------------------------------------------------------------- C18
\* C18: whatever list and mark requests run and however they interleave,
\* every step leaves each stored record in the store, unchanged: records
\* are only ever added.
C18_RecordsAreNeverChangedOrRemoved ==
    [][\A r \in records : r \in records']_vars

\* A record saved on the first day is still stored, as saved, after a list
\* request ran and a later request marked the same subject on the next day.
C18_Witness ==
    /\ \E r1, r2 \in records :
          /\ r1.employeeId = r2.employeeId
          /\ r1.date = 0 /\ r2.date = TicksPerDay
    /\ rd.op = "list" /\ rd.pc = "done"

\* --------------------------------------------------------------- C19
\* The employees a caller may mark: every employee for an admin, the
\* employees the caller created for an hr user.
MarkableBy(caller) ==
    {u \in UserIds : /\ RoleOf(u) = "employee"
                     /\ (RoleOf(caller) = "admin"
                            \/ (RoleOf(caller) = "hr" /\ Directory[u].createdBy = caller))}

\* C19: list-markable-subjects answers an employee caller Forbidden with no
\* list; it answers an hr or admin caller, unless the directory is
\* unavailable, 200 with exactly the employees in the caller's scope, each
\* once: all employees for an admin, the employees created by the caller
\* for an hr user.
C19_MarkableSubjectsAreExactlyScope ==
    (rd.pc = "done" /\ rd.op = "employees")
    => /\ RoleOf(rd.caller) = "employee"
            => (rd.res.status = 403 /\ rd.body = <<>>)
       /\ (RoleOf(rd.caller) # "employee" /\ rd.res.status # 500)
            => rd.res = ResOk
       /\ rd.res = ResOk
            => /\ {rd.body[i]._id : i \in DOMAIN rd.body} = MarkableBy(rd.caller)
               /\ Len(rd.body) = Cardinality(MarkableBy(rd.caller))
               /\ \A i \in DOMAIN rd.body : rd.body[i].role = "employee"

\* h1 listed its markable subjects and got e1 alone, while the directory
\* holds another employee, created by the admin.
C19_Witness ==
    /\ rd.pc = "done" /\ rd.op = "employees" /\ rd.res = ResOk
    /\ rd.caller = "h1"
    /\ Len(rd.body) = 1 /\ rd.body[1]._id = "e1"
    /\ RoleOf("e2") = "employee" /\ Directory["e2"].createdBy # "h1"

\* --------------------------------------------------------------- C20
\* The records list-today owes a caller whose request arrived on the day
\* starting at t: those in the caller's scope dated in [t, t + one day).
DueToday(caller, t) ==
    {r \in records : /\ InReadScope(caller, r.employeeId)
                     /\ t <= r.date /\ r.date < t + TicksPerDay}

\* C20: list-today answers an employee caller Forbidden with no list; for
\* an hr or admin caller its day is the current calendar day on arrival,
\* and a 200 answer holds, each once, exactly the stored records in the
\* caller's scope dated on that day, so none dated at the start of the next
\* day or before the start of the day; an hr caller who created no user
\* gets, unless the directory is unavailable, 200 with an empty list.
C20_TodayIsExactlyScopeAndDay ==
    [][/\ (rd.pc = "idle" /\ rd'.op = "today")
          => IF RoleOf(rd'.caller) = "employee"
             THEN rd'.pc = "done" /\ rd'.res.status = 403 /\ rd'.body = <<>>
             ELSE rd'.pc # "done" /\ rd'.query.date.today = StartOfDay(now)
       /\ (rd.op = "today" /\ rd.pc # "done" /\ rd'.pc = "done" /\ rd'.res = ResOk)
          => /\ BodySet(rd'.body) = DueToday(rd.caller, rd.query.date.today)
             /\ Len(rd'.body) = Cardinality(BodySet(rd'.body))
             /\ \A i \in DOMAIN rd'.body :
                   /\ rd'.body[i].date # rd.query.date.today + TicksPerDay
                   /\ rd'.body[i].date >= rd.query.date.today
       /\ (/\ rd.op = "today" /\ rd.pc # "done" /\ rd'.pc = "done"
           /\ RoleOf(rd.caller) = "hr" /\ HasCreatedNobody(rd.caller)
           /\ rd'.res.status # 500)
          => rd'.res = ResOk /\ rd'.body = <<>>]_vars

\* On the second day the admin got today's list: it holds the one record
\* saved that day and not the record of the day before.
C20_Witness ==
    /\ rd.pc = "done" /\ rd.op = "today" /\ rd.res = ResOk
    /\ rd.caller = "adm"
    /\ rd.query.date.today = TicksPerDay
    /\ Len(rd.body) = 1 /\ rd.body[1].date = TicksPerDay
    /\ \E r \in records : r.date = 0

\* --------------------------------------------------------------- C16
\* A string with nothing but spaces in it.
Blank(t) == \A i \in DOMAIN t : t[i] = " "

\* A form whose submission may create a meeting.
Submittable(fd) == ~Blank(fd.title) /\ fd.dateTime # "" /\ fd.attendees # {}

\* C16: a step adds a meeting only from a form whose title is not blank,
\* whose dateTime is present and whose attendee set is not empty, and then
\* it adds exactly one meeting, organized by the submitting user and
\* carrying the form's title, dateTime and attendees, and changes no other
\* meeting; a submission turned away (the alert comes up) is of a form
\* failing one of these and leaves the meetings and the form data as they
\* were.
C16_SubmissionCreatesOnlyFromValidForm ==
    [][/\ meetings' # meetings /\ Len(meetings') # Len(meetings)
          => /\ Submittable(formData)
             /\ Len(meetings') = Len(meetings) + 1
             /\ SubSeq(meetings', 1, Len(meetings)) = meetings
             /\ LET m == meetings'[Len(meetings')]
                IN  /\ m.scheduledBy = currentUser
                    /\ m.title = formData.title
                    /\ m.dateTime = formData.dateTime
                    /\ m.attendees = formData.attendees
       /\ (~alertShown /\ alertShown')
          => /\ ~Submittable(formData)
             /\ meetings' = meetings
             /\ formData' = formData]_vars

\* h1 submitted a form whose title is only a space and was turned away,
\* while the first meeting, of the admin, stays the only one.
C16_Witness ==
    /\ alertShown
    /\ currentUser = "h1"
    /\ formData.title = <<" ">> /\ formData.dateTime # "" /\ formData.attendees = {"e1"}
    /\ Len(meetings) = 1 /\ meetings[1].scheduledBy = "adm"

\* --------------------------------------------------------------- C13
\* The user may change the status of the meeting: its organizer, or an
\* admin.
MayChangeStatus(u, meeting) == meeting.scheduledBy = u \/ users[u].role = "admin"

\* C13: the scheduler shows the status buttons of a meeting only to its
\* organizer or an admin, and a step changes a meeting's status only when
\* the user at the scheduler is its organizer or an admin.
C13_StatusChangedOnlyByOrganizerOrAdmin ==
    [][\A i \in DOMAIN meetings :
        /\ (i \in myMeetings /\ StatusButtonsShown(role, meetings[i]))
           => MayChangeStatus(currentUser, meetings[i])
        /\ meetings'[i].status # meetings[i].status
           => MayChangeStatus(currentUser, meetings[i])]_vars

\* --------------------------------------------------------------- C14
\* The attendee lies within the organizer's scope: anyone for an admin, an
\* employee the organizer created for an hr user.
InOrganizerScope(organizer, attendee) ==
    \/ users[organizer].role = "admin"
    \/ /\ users[organizer].role = "hr"
       /\ users[attendee].role = "employee"
       /\ users[attendee].createdBy = organizer

\* C14: a step that creates a meeting creates it with every attendee in the
\* organizer's scope as it is at that submission.
C14_AttendeesInScopeAtSubmission ==
    [][Len(meetings') > Len(meetings)
        => \A a \in meetings'[Len(meetings')].attendees :
              InOrganizerScope(currentUser, a)]_vars

\* --------------------------------------------------------------- C15
\* C15: a step changes the status of a meeting only from scheduled, and
\* only to completed or cancelled; a completed or cancelled meeting keeps
\* its status in every step.
C15_StatusOnlyLeavesScheduled ==
    [][\A i \in DOMAIN meetings :
        /\ i \in DOMAIN meetings'
        /\ meetings'[i].status # meetings[i].status
           => /\ meetings[i].status = "scheduled"
              /\ meetings'[i].status \in {"completed", "cancelled"}
        /\ meetings[i].status \in {"completed", "cancelled"}
           => meetings'[i].status = meetings[i].status]_vars

\* A completed meeting and a cancelled one, both on the list of their
\* organizer, who is at the scheduler.
C15_Witness ==
    \E i, j \in DOMAIN meetings :
        /\ meetings[i].status = "completed" /\ meetings[j].status = "cancelled"
        /\ meetings[i].scheduledBy = currentUser
        /\ meetings[j].scheduledBy = currentUser
        /\ {i, j} \subseteq myMeetings
        /\ role # "employee"

\* --------------------------------------------------------------- C21
\* C21 as stated: the record a save adds carries the name the subject has
\* in the directory at that moment, and no step, a rename included, changes
\* or removes a stored record.
C21_StoredNameIsNameAtCreation ==
    [][/\ \A r \in records' \ records : r.employeeName = users[r.employeeId].name
       /\ \A r \in records : r \in records']_vars

\* C21 as amended: the subject lookup of a request takes the name the
\* subject has in the directory at that moment; the record the request
\* saves carries that name, whatever the directory holds by then; and a
\* rename changes no stored record, like every other step.
C21_StoredNameIsNameAtLookup ==
    [][/\ \A c \in Conns :
            /\ (req[c].pc = "findEmployee" /\ req'[c].pc = "findExisting")
               => req'[c].employeeName = users[req[c].employeeId].name
            /\ (req[c].pc = "save" /\ req'[c].saved)
               => \A r \in records' \ records :
                     /\ r.employeeId = req[c].employeeId
                     /\ r.employeeName = req[c].employeeName
            /\ (req'[c].pc \notin {"idle", "done", "findEmployee", "findExisting"}
                    /\ req[c].pc \notin {"idle", "findEmployee"})
               => req'[c].employeeName = req[c].employeeName
       /\ users' # users => records' = records
       /\ \A r \in records : r \in records']_vars

\* e1 was marked as Eve and renamed Evelyn afterwards: the record still
\* says Eve.
C21_Witness ==
    /\ req[Marker].pc = "done" /\ Persisted(req[Marker].res)
    /\ req[Marker].employeeId = "e1"
    /\ users["e1"].name = "Evelyn"
    /\ \E r \in records :
          /\ r.employeeId = "e1" /\ r.date = req[Marker].range.today
          /\ r.employeeName = "Eve"

\* --------------------------------------------------------------- C22
\* C22: while the user at the scheduler is an employee, the schedule form
\* is closed and stays closed, no meeting on the user's list shows a
\* status button, and no step creates a meeting or changes a meeting's
\* status.
C22_EmployeeIsReadOnly ==
    [][users[currentUser].role = "employee"
        => /\ ~showAddForm
           /\ currentUser' = currentUser => ~showAddForm'
           /\ \A i \in myMeetings : ~StatusButtonsShown("employee", meetings[i])
           /\ meetings' = meetings]_vars

\* The employee e1 is at the scheduler and a scheduled meeting that e1
\* attends is on the list.
C22_Witness ==
    /\ currentUser = "e1" /\ users["e1"].role = "employee"
    /\ \E i \in myMeetings :
          /\ meetings[i].status = "scheduled"
          /\ "e1" \in meetings[i].attendees

\* --------------------------------------------------------------- C23
\* C23: in a successful list-attendance response, of any two records the
\* one placed earlier has a date at least as late as the other's.
C23_ListIsDateDescending ==
    (rd.pc = "done" /\ rd.op = "list" /\ rd.res = ResOk)
    => \A i, j \in DOMAIN rd.body : i < j => rd.body[i].date >= rd.body[j].date

\* The admin's list holds records of two different days, the later first.
C23_Witness ==
    /\ rd.pc = "done" /\ rd.op = "list" /\ rd.res = ResOk
    /\ rd.caller = "adm"
    /\ Len(rd.body) >= 2
    /\ rd.body[1].date > rd.body[Len(rd.body)].date

\* --------------------------------------------------------------- C24
\* C24: a request takes its day once: the range it has taken stays as it is
\* for the rest of the request and spans one day; the duplicate check
\* passes only when no record of the subject is dated inside it; and the
\* record the request saves is dated at the start of that range, so inside
\* it, wherever the clock stands by then.
C24_OneDayBoundaryPerRequest ==
    [][\A c \in Conns :
        /\ req[c].range # NoRange
           => /\ req'[c].range = req[c].range
              /\ req[c].range.tomorrow = req[c].range.today + TicksPerDay
        /\ (req[c].pc = "findExisting" /\ req'[c].pc = "save")
           => ~\E r \in records :
                 /\ r.employeeId = req[c].employeeId
                 /\ req[c].range.today <= r.date /\ r.date < req[c].range.tomorrow
        /\ (req[c].pc = "save" /\ req'[c].saved)
           => \A r \in records' \ records :
                 /\ r.date = req[c].range.today
                 /\ req[c].range.today <= r.date /\ r.date < req[c].range.tomorrow]_vars

\* A request that took its day before midnight has saved its record, dated
\* on that day, and is still in flight on the next day.
C24_Witness ==
    \E c \in Conns :
        /\ req[c].pc = "populateEmployee" /\ req[c].saved
        /\ req[c].range.today < StartOfDay(now)
        /\ \E r \in records :
              r.employeeId = req[c].employeeId /\ r.date = req[c].range.today

\* --------------------------------------------------------------- C25
\* The kinds of violation a request body shows.
ViolationKinds(q) ==
    (IF Missing(q.employeeId) \/ Missing(q.status) THEN {"missing-field"} ELSE {})
    \cup (IF ~Missing(q.status) /\ q.status \notin ATTENDANCE_STATUS
          THEN {"invalid-enum"} ELSE {})
    \cup (IF q.status = "present" /\ Missing(q.checkInTime)
          THEN {"conditional-field-missing"} ELSE {})

\* C25: two requests of hr or admin callers that were rejected by
\* validation, each for one kind of violation and the two for different
\* kinds, got different responses.
C25_ValidationKindsDistinguishable ==
    \A c, d \in Conns :
        (/\ Done(c) /\ Done(d)
         /\ HrOrAdmin(req[c].caller) /\ HrOrAdmin(req[d].caller)
         /\ Cardinality(ViolationKinds(req[c])) = 1
         /\ Cardinality(ViolationKinds(req[d])) = 1
         /\ ViolationKinds(req[c]) # ViolationKinds(req[d]))
        => req[c].res # req[d].res

\* --------------------------------------------------------------- C26
\* The stored records of one subject.
RecordsOf(employeeId) == {r \in records : r.employeeId = employeeId}

\* C26: a step of a request for one subject leaves the records of every
\* other subject as they are; the duplicate check and the save of a request
\* are decided by the records of its own subject alone; so of two requests
\* for different subjects, one that is valid, in scope and meets no
\* unavailable collaborator ends Persisted whatever the other did.
C26_DifferentSubjectsNeverContend ==
    [][\A c \in Conns :
        /\ req'[c] # req[c]
           => \A e \in UserIds \ {req'[c].employeeId} :
                 {r \in records' : r.employeeId = e} = RecordsOf(e)
        /\ (/\ req[c].pc = "findExisting" /\ req'[c].pc # "findExisting"
            /\ req'[c].err = NULL)
           => (DuplicateForPeriod(req'[c].res)
                <=> \E r \in RecordsOf(req[c].employeeId) :
                        DayOf(r.date) = DayOf(req[c].range.today))
        /\ (req[c].pc = "save" /\ req'[c].pc # "save" /\ req'[c].err # "Unavailable")
           => (req'[c].saved
                <=> ~\E r \in RecordsOf(req[c].employeeId) :
                        r.date = req[c].range.today)
        /\ \A d \in Conns \ {c} :
              (/\ Done(d)' /\ req'[d].err = NULL
               /\ HrOrAdmin(req'[d].caller) /\ ~BodyInvalid(req'[d])
               /\ ~OutOfMarkScope(req'[d].caller, req'[d].employeeId)
               /\ Started(c)' /\ req'[c].employeeId # req'[d].employeeId)
              => Persisted(req'[d].res)]_vars

\* e1 and e2 were marked on the same day by two requests and both ended
\* Persisted.
C26_Witness ==
    \E c, d \in Conns :
        /\ req[c].employeeId = "e1" /\ req[d].employeeId = "e2"
        /\ Done(c) /\ Persisted(req[c].res)
        /\ Done(d) /\ Persisted(req[d].res)
        /\ req[c].range = req[d].range
        /\ Cardinality(records) = 2

\* --------------------------------------------------------------- C27
\* The ids list-markable-subjects returned.
ListedIds == {rd.body[i]._id : i \in DOMAIN rd.body}

\* C27: when list-markable-subjects has answered a caller and a
\* mark-attendance request of the same caller has had its scope check, the
\* check accepted the subject if it is on the list and answered
\* NotFoundOrForbidden if it is not.
C27_WriteScopeIsAdvertisedSet ==
    (/\ rd.pc = "done" /\ rd.op = "employees" /\ rd.res = ResOk
     /\ req[Marker].caller = rd.caller
     /\ req[Marker].pc \notin {"idle", "findEmployee"}
     /\ ~BodyInvalid(req[Marker])
     /\ ~(req[Marker].err = "Unavailable" /\ req[Marker].range = NoRange))
    => IF req[Marker].employeeId \in ListedIds
       THEN req[Marker].range # NoRange /\ ~NotFoundOrForbidden(req[Marker].res)
       ELSE Done(Marker) /\ NotFoundOrForbidden(req[Marker].res)
                         /\ req[Marker].range = NoRange

\* h1 was told e1 is markable and its mark for e1 passed the scope check;
\* the record is stored.
C27_Witness ==
    /\ rd.pc = "done" /\ rd.op = "employees" /\ rd.res = ResOk
    /\ rd.caller = "h1" /\ "e1" \in ListedIds
    /\ req[Marker].caller = "h1" /\ req[Marker].employeeId = "e1"
    /\ req[Marker].saved

====
